---- MODULE Spec2Model ----
(***************************************************************************)
(* The technical-analysis menu of GamestonkTerminal:                       *)
(* gamestonk_terminal/technical_analysis/ta_controller.py.                 *)
(*                                                                         *)
(* An input line is a sequence of fields, the pieces of the typed text     *)
(* between single blanks: the text "ema  -x" is <<"ema", "", "-x">>.       *)
(* str.split() drops the empty fields.  Tokens are atomic strings, so the  *)
(* lexical tests argparse makes on a token (does it start with a dash, is  *)
(* it a negative number, what are its comma-separated items, what integer  *)
(* does it denote) are tables over the token alphabet of the model.        *)
(***************************************************************************)
EXTENDS Integers, Sequences, FiniteSets, TLC

VARIABLES pc, an_input, delete_img, artifact, context, registry, last, ret, log

vars == <<pc, an_input, delete_img, artifact, context, registry, last, ret, log>>

-----------------------------------------------------------------------------
(* Bounds of the model *)

\* longest line, in fields, built freely from SampleTokens
MaxFields == 3
\* longest argument list given to ema / sma, built freely from ArgTokens
MaxArgs == 4
\* number of lines of a recorded session (SpecRun)
MaxDispatch == 3

-----------------------------------------------------------------------------
(* Control signals: the three values switch documents *)

None == "None"
EXIT_MENU == "False"
EXIT_PROGRAM == "True"

-----------------------------------------------------------------------------
(* The command registry *)

CHOICES ==
  << "help", "q", "quit", "view", "summary", "recom", "pr", "ema", "sma",
     "vwap", "cci", "macd", "rsi", "stoch", "adx", "aroon", "bbands", "ad",
     "obv" >>

Choices == { CHOICES[i] : i \in 1..Len(CHOICES) }

\* the methods of a controller that lacks call_obv
Methods_NoObv ==
  { "call_help", "call_q", "call_quit", "call_view", "call_summary",
    "call_recom", "call_pr", "call_ema", "call_sma", "call_vwap", "call_cci",
    "call_macd", "call_rsi", "call_stoch", "call_adx", "call_aroon",
    "call_bbands", "call_ad" }

\* the call_ methods the class defines
Methods ==
  { "call_help", "call_q", "call_quit", "call_view", "call_summary",
    "call_recom", "call_pr", "call_ema", "call_sma", "call_vwap", "call_cci",
    "call_macd", "call_rsi", "call_stoch", "call_adx", "call_aroon",
    "call_bbands", "call_ad", "call_obv" }

-----------------------------------------------------------------------------
(* Token alphabet and its lexical tables *)

SampleTokens == { "", "bogus", "EMA", "-x", "--", "-1", "q", "view", "ema" }

ArgTokens == { "--length", "--offset", "10,30", "20,abc", "-1", "5" }

\* tokens of the alphabet whose first character is '-'
StartsWithDash(t) == t \in { "-x", "--", "-1", "--length", "--offset" }

\* tokens of the alphabet matching argparse's '^-\d+$|^-\d*\.\d+$'
IsNegativeNumber(t) == t \in { "-1" }

\* s.split(",")
CommaItems(s) ==
  CASE s = "10,30" -> << "10", "30" >>
    [] s = "20,abc" -> << "20", "abc" >>
    [] OTHER -> << s >>

\* the tokens int() accepts, and the integer each denotes
IsInt(s) == s \in { "5", "10", "20", "30", "-1" }

IntOf(s) ==
  CASE s = "5" -> 5
    [] s = "10" -> 10
    [] s = "20" -> 20
    [] s = "30" -> 30
    [] s = "-1" -> -1
    [] OTHER -> 0

-----------------------------------------------------------------------------
(* Lines the reader can supply *)

\* the sequences over S of length at most n
SeqsUpTo(S, n) == UNION { [1..k -> S] : k \in 0..n }

Lines ==
  SeqsUpTo(SampleTokens, MaxFields)
    \cup { << c >> : c \in Choices }
    \cup { << c, d >> : c \in Choices, d \in Choices }
    \cup { << c >> \o a : c \in { "ema", "sma" }, a \in SeqsUpTo(ArgTokens, MaxArgs) }

ScriptLines ==
  { << >>, << "-x", "q" >> }
    \cup { << c >> : c \in { "bogus", "help", "q", "quit", "view", "ema", "obv" } }

-----------------------------------------------------------------------------
(* an_input.split() *)

Split(line) == SelectSeq(line, LAMBDA f : f # "")

-----------------------------------------------------------------------------
(* self.ta_parser.parse_known_args(tokens): argparse with the single        *)
(* positional cmd (choices=CHOICES) and no declared option.                 *)

\* index of the first "--" of the token list, 0 when there is none
FirstDoubleDash(tokens) ==
  LET dd == { i \in 1..Len(tokens) : tokens[i] = "--" }
  IN  IF dd = {} THEN 0 ELSE CHOOSE i \in dd : \A j \in dd : i <= j

\* argparse's _parse_optional: the token looks like an option flag
LooksLikeOption(t) == StartsWithDash(t) /\ t # "-" /\ ~IsNegativeNumber(t)

\* argparse's arg_strings_pattern, with dd the index of the first "--":
\* "-" for that "--", "A" for every token after it, else "O" for a token
\* that looks like an option, else "A"
PatternAt(tokens, i, dd) ==
  IF dd # 0 /\ i = dd THEN "-"
  ELSE IF dd # 0 /\ i > dd THEN "A"
  ELSE IF LooksLikeOption(tokens[i]) THEN "O"
  ELSE "A"

ArgPattern(tokens, i) == PatternAt(tokens, i, FirstDoubleDash(tokens))

RECURSIVE Keep(_, _, _)
\* the tokens from index i on whose index is not in drop, in order
Keep(tokens, drop, i) ==
  IF i > Len(tokens) THEN << >>
  ELSE (IF i \in drop THEN << >> ELSE << tokens[i] >>) \o Keep(tokens, drop, i + 1)

SystemExitParse == [exit |-> TRUE, cmd |-> "", other_args |-> << >>]

\* index of the first token that is not option-like, 0 when there is none:
\* the option-like tokens before it go to the extras
FirstOther(tokens) ==
  LET rest == { i \in 1..Len(tokens) : ArgPattern(tokens, i) # "O" }
  IN  IF rest = {} THEN 0 ELSE CHOOSE i \in rest : \A j \in rest : i <= j

\* Positional taking the last registered name of the line, when it has one
Positional_LastName(tokens, k) ==
  LET names == { i \in 1..Len(tokens) : tokens[i] \in Choices }
  IN  IF k = 0 THEN 0
      ELSE IF names # {} THEN CHOOSE i \in names : \A j \in names : j <= i
      ELSE IF ArgPattern(tokens, k) = "A" THEN k
      ELSE IF k < Len(tokens) THEN k + 1
      ELSE 0

\* index of the token the positional takes, 0 when there is none: the
\* positional matches '-*A-*' from the token k on
Positional(tokens, k) ==
  IF k = 0 THEN 0
  ELSE IF ArgPattern(tokens, k) = "A" THEN k
  ELSE IF k < Len(tokens) THEN k + 1
  ELSE 0

\* the indices the match consumes: the "A" and a "--" right before or right
\* after it, which is dropped from the value
Consumed(tokens, k, cand) ==
  IF cand = 0 THEN {}
  ELSE IF cand # k THEN { k, cand }
  ELSE IF cand < Len(tokens) /\ ArgPattern(tokens, cand + 1) = "-" THEN { cand, cand + 1 }
  ELSE { cand }

\* an absent value, or one outside CHOICES, is parser.error(): SystemExit;
\* else cmd is the value and what the match left of the line is the extras
Match(tokens, k, cand) ==
  IF cand = 0 THEN SystemExitParse
  ELSE IF tokens[cand] \notin Choices THEN SystemExitParse
  ELSE [exit |-> FALSE, cmd |-> tokens[cand],
        other_args |-> Keep(tokens, Consumed(tokens, k, cand), 1)]

MatchFrom(tokens, k) == Match(tokens, k, Positional(tokens, k))

parse_known_args(tokens) == MatchFrom(tokens, FirstOther(tokens))

-----------------------------------------------------------------------------
(* The argument schema of ema and sma, and the per-command parser *)

\* type=lambda s: [int(item) for item in s.split(",")]
LengthType(s) ==
  LET items == CommaItems(s)
  IN  IF \A i \in 1..Len(items) : IsInt(items[i])
      THEN [ok |-> TRUE, value |-> [i \in 1..Len(items) |-> IntOf(items[i])]]
      ELSE [ok |-> FALSE, value |-> << >>]

\* helper_funcs.check_positive, the validity predicate of --offset: the
\* value is an integer and is not negative
check_positive(s) ==
  IF IsInt(s) /\ IntOf(s) >= 0
  THEN [ok |-> TRUE, value |-> IntOf(s)]
  ELSE [ok |-> FALSE, value |-> 0]

\* the "no result" sentinel of the parser
NoResult == [ok |-> FALSE, length |-> << >>, offset |-> 0]

\* default=[20, 50] and default=0
Defaults == [ok |-> TRUE, length |-> << 20, 50 >>, offset |-> 0]

RECURSIVE ParseFlags(_, _, _)
\* the options record after the tokens args, from the record ns with the
\* flags of seen already given; the sentinel on an unknown flag, a flag
\* without its value, a repeated flag, a value its type refuses
ParseFlags(args, ns, seen) ==
  IF args = << >> THEN ns
  ELSE IF Len(args) < 2 \/ Head(args) \in seen THEN NoResult
  ELSE IF Head(args) = "--length"
       THEN LET v == LengthType(args[2])
            IN  IF ~v.ok THEN NoResult
                ELSE ParseFlags(SubSeq(args, 3, Len(args)),
                                [ns EXCEPT !.length = v.value],
                                seen \cup { "--length" })
  ELSE IF Head(args) = "--offset"
       THEN LET v == check_positive(args[2])
            IN  IF ~v.ok THEN NoResult
                ELSE ParseFlags(SubSeq(args, 3, Len(args)),
                                [ns EXCEPT !.offset = v.value],
                                seen \cup { "--offset" })
  ELSE NoResult

\* helper_funcs.parse_known_args_and_warn(parser, other_args) for the
\* parser ema and sma build: the options record, or the sentinel
parse_known_args_and_warn(other_args) == ParseFlags(other_args, Defaults, {})

-----------------------------------------------------------------------------
(* What the collaborators of one dispatch do.                              *)
(*   delegate: the view function a thin handler hands its tokens to:       *)
(*             "done" it did its work, "aborted" it returned early with no *)
(*             effect (its own parser gave the sentinel), "raised" it      *)
(*             raised an Exception                                         *)
(*   compute:  ta_overlap.ema / ta_overlap.sma returned or raised          *)
(*   show:     plt.show() returned or raised                              *)

Outcomes ==
  [delegate : { "done", "aborted", "raised" },
   compute : { "ok", "raised" },
   show : { "ok", "raised" }]

-----------------------------------------------------------------------------
(* The handlers.  Each takes the tokens, the controller's mutable state st *)
(* = [delete_img, artifact, context, registry] and the collaborators'      *)
(* outcome, and gives                                                      *)
(* value returned, the exception leaving it, the state and its effects in  *)
(* order: the calls it makes, "raise" when the call before it raised, and  *)
(* what it prints.                                                         *)

Returned(value, st, events) ==
  [ret |-> value, exc |-> "none", st |-> st, events |-> events, ns |-> NoResult]

Raised(exc, st, events) ==
  [ret |-> None, exc |-> exc, st |-> st, events |-> events, ns |-> NoResult]

\* a handler that hands its tokens to one view function and has no try
Delegate(fn, st, out) ==
  IF out.delegate = "raised" THEN Raised("Exception", st, << fn, "raise" >>)
  ELSE Returned(None, st, << fn >>)

\* call_help with "self.interval = ..." written for the comparison
call_help_SetsInterval(other_args, st, out) ==
  Returned(None, [st EXCEPT !.context.interval = "1440min"], << "print_help" >>)

call_help(other_args, st, out) == Returned(None, st, << "print_help" >>)

call_q(other_args, st, out) == Returned(EXIT_MENU, st, << >>)

call_quit(other_args, st, out) == Returned(EXIT_PROGRAM, st, << >>)

\* call_view with the flag set before finviz_view.view is called
call_view_FlagFirst(other_args, st, out) ==
  IF out.delegate = "raised"
  THEN Raised("Exception", [st EXCEPT !.delete_img = TRUE], << "finviz_view.view", "raise" >>)
  ELSE Returned(None,
                [st EXCEPT !.delete_img = TRUE,
                           !.artifact = (st.artifact \/ out.delegate = "done")],
                << "finviz_view.view" >>)

\* finviz_view.view saves <ticker>.jpg when it does its work; the flag is
\* set once it has returned
call_view(other_args, st, out) ==
  IF out.delegate = "raised" THEN Raised("Exception", st, << "finviz_view.view", "raise" >>)
  ELSE Returned(None,
                [st EXCEPT !.delete_img = TRUE,
                           !.artifact = (st.artifact \/ out.delegate = "done")],
                << "finviz_view.view" >>)

call_summary(other_args, st, out) == Delegate("finbrain_view.technical_summary_report", st, out)

call_recom(other_args, st, out) == Delegate("tradingview_view.print_recommendation", st, out)

call_pr(other_args, st, out) == Delegate("finnhub_view.pattern_recognition_view", st, out)

\* Computed with "return False" for "return" on the sentinel
Computed_ExitOnSentinel(fn, ns_parser, st, out) ==
  [ret |-> IF ns_parser.ok THEN None ELSE EXIT_MENU,
   exc |-> "none", st |-> st, ns |-> ns_parser,
   events |-> IF ~ns_parser.ok THEN << >>
              ELSE IF out.compute = "raised" THEN << fn, "raise", "print_exception" >>
              ELSE IF out.show = "raised" THEN << fn, "plt.show", "raise", "print_exception" >>
              ELSE << fn, "plt.show" >>]

\* Computed without the test "if not ns_parser: return"
Computed_NoAbort(fn, ns_parser, st, out) ==
  [ret |-> None, exc |-> "none", st |-> st, ns |-> ns_parser,
   events |-> IF out.compute = "raised" THEN << fn, "raise", "print_exception" >>
              ELSE IF out.show = "raised" THEN << fn, "plt.show", "raise", "print_exception" >>
              ELSE << fn, "plt.show" >>]

\* Computed with no try around the computation and the plot
Computed_NoTry(fn, ns_parser, st, out) ==
  [ret |-> None,
   exc |-> IF ns_parser.ok /\ (out.compute = "raised" \/ out.show = "raised")
           THEN "Exception" ELSE "none",
   st |-> st, ns |-> ns_parser,
   events |-> IF ~ns_parser.ok THEN << >>
              ELSE IF out.compute = "raised" THEN << fn, "raise" >>
              ELSE IF out.show = "raised" THEN << fn, "plt.show", "raise" >>
              ELSE << fn, "plt.show" >>]

\* what ema and sma do with the parser's result: on the sentinel return at
\* once; else compute and show, and an exception of either is caught by
\* except Exception, printed, and None is returned
Computed(fn, ns_parser, st, out) ==
  [ret |-> None, exc |-> "none", st |-> st, ns |-> ns_parser,
   events |-> IF ~ns_parser.ok THEN << >>
              ELSE IF out.compute = "raised" THEN << fn, "raise", "print_exception" >>
              ELSE IF out.show = "raised" THEN << fn, "plt.show", "raise", "print_exception" >>
              ELSE << fn, "plt.show" >>]

\* the body ema and sma share, inside try
MovingAverage(fn, other_args, st, out) ==
  Computed(fn, parse_known_args_and_warn(other_args), st, out)

call_ema(other_args, st, out) == MovingAverage("ta_overlap.ema", other_args, st, out)

call_sma(other_args, st, out) == MovingAverage("ta_overlap.sma", other_args, st, out)

call_vwap(other_args, st, out) == Delegate("ta_overlap.vwap", st, out)

call_cci(other_args, st, out) == Delegate("ta_momentum.cci", st, out)

call_macd(other_args, st, out) == Delegate("ta_momentum.macd", st, out)

call_rsi(other_args, st, out) == Delegate("ta_momentum.rsi", st, out)

call_stoch(other_args, st, out) == Delegate("ta_momentum.stoch", st, out)

call_adx(other_args, st, out) == Delegate("ta_trend.adx", st, out)

call_aroon(other_args, st, out) == Delegate("ta_trend.aroon", st, out)

call_bbands(other_args, st, out) == Delegate("ta_volatility.bbands", st, out)

call_ad(other_args, st, out) == Delegate("ta_volume.ad", st, out)

call_obv(other_args, st, out) == Delegate("ta_volume.obv", st, out)

\* the bound method of that name, applied
Invoke(method, other_args, st, out) ==
  CASE method = "call_help" -> call_help(other_args, st, out)
    [] method = "call_q" -> call_q(other_args, st, out)
    [] method = "call_quit" -> call_quit(other_args, st, out)
    [] method = "call_view" -> call_view(other_args, st, out)
    [] method = "call_summary" -> call_summary(other_args, st, out)
    [] method = "call_recom" -> call_recom(other_args, st, out)
    [] method = "call_pr" -> call_pr(other_args, st, out)
    [] method = "call_ema" -> call_ema(other_args, st, out)
    [] method = "call_sma" -> call_sma(other_args, st, out)
    [] method = "call_vwap" -> call_vwap(other_args, st, out)
    [] method = "call_cci" -> call_cci(other_args, st, out)
    [] method = "call_macd" -> call_macd(other_args, st, out)
    [] method = "call_rsi" -> call_rsi(other_args, st, out)
    [] method = "call_stoch" -> call_stoch(other_args, st, out)
    [] method = "call_adx" -> call_adx(other_args, st, out)
    [] method = "call_aroon" -> call_aroon(other_args, st, out)
    [] method = "call_bbands" -> call_bbands(other_args, st, out)
    [] method = "call_ad" -> call_ad(other_args, st, out)
    [] method = "call_obv" -> call_obv(other_args, st, out)

-----------------------------------------------------------------------------
(* switch *)

\* if self.delete_img: if os.path.isfile(ticker + ".jpg"): os.remove(...);
\* self.delete_img = False
CleanUp(st) ==
  IF st.delete_img /\ st.artifact
  THEN [st |-> [st EXCEPT !.delete_img = FALSE, !.artifact = FALSE],
        events |-> << "os.remove" >>]
  ELSE [st |-> st, events |-> << >>]

\* getattr(self, "call_" + cmd, lambda: ...)(other_args) after the clean-up c
\* of the state st: the bound method applied to the tokens, or the fallback
\* lambda, which takes no argument, so that calling it raises TypeError
Handled(method, other_args, c, st, h) ==
  IF method \in Methods
  THEN [ret |-> h.ret, exc |-> h.exc, st |-> h.st,
        events |-> c.events \o << method >> \o h.events,
        called |-> << [method |-> method, other_args |-> other_args] >>,
        ns |-> h.ns, start |-> st]
  ELSE [ret |-> None, exc |-> "TypeError", st |-> c.st,
        events |-> c.events \o << "lambda" >>,
        called |-> << >>, ns |-> NoResult, start |-> st]

GetAttrCall(method, other_args, c, st, out) ==
  Handled(method, other_args, c, st, Invoke(method, other_args, c.st, out))

\* switch once the line is parsed: SystemExit of the parser leaves switch
\* before anything else is done
Routed(p, st, out) ==
  IF p.exit
  THEN [ret |-> None, exc |-> "SystemExit", st |-> st, events |-> << >>,
        called |-> << >>, ns |-> NoResult, start |-> st]
  ELSE GetAttrCall("call_" \o p.cmd, p.other_args, CleanUp(st), st, out)

\* One call of switch on the line an_input from the state st: the value
\* returned, the exception leaving it, the state it leaves, its effects in
\* order, the handler invocations it made with the tokens each received,
\* and the state it started from.
\* The line is split and parsed once, and the result p is routed.
switch(line, st, out) ==
  CHOOSE r \in { Routed(p, st, out) :
                  p \in { parse_known_args(tokens) : tokens \in { Split(line) } } } : TRUE

-----------------------------------------------------------------------------
(* menu *)

\* no dispatch made yet in this turn of the loop
NoDispatch ==
  [ret |-> None, exc |-> "none", st |-> [delete_img |-> FALSE, artifact |-> FALSE],
   events |-> << >>, called |-> << >>, ns |-> NoResult,
   start |-> [delete_img |-> FALSE, artifact |-> FALSE]]

\* where the try statement of the loop leaves menu, given what switch did:
\* SystemExit is caught and the loop continues, any other exception leaves
\* menu, a value other than None is returned, None loops
AfterSwitch(r) ==
  IF r.exc = "SystemExit" THEN "looped"
  ELSE IF r.exc # "none" THEN "raised"
  ELSE IF r.ret # None THEN "returned"
  ELSE "looped"

\* the intervals menu is called with: daily data or intraday data
Intervals == { "1440min", "5min" }

\* the session context the caller passes to menu: self.stock, self.ticker,
\* self.start, self.interval, self.gst
Contexts ==
  [stock : { "stock" }, ticker : { "TCK" }, start : { "start" },
   interval : Intervals, gst : { "gst" }]

\* the registry: the class attribute CHOICES and the choices of the cmd
\* argument of ta_parser, which is that list
Registry == [CHOICES |-> CHOICES, cmd_choices |-> CHOICES]

\* the controller's fields and the artifact file, as the handlers see them
Self ==
  [delete_img |-> delete_img, artifact |-> artifact,
   context |-> context, registry |-> registry]

\* menu constructs the controller and prints the help; a file named
\* <ticker>.jpg may or may not lie in the working directory
Init ==
  /\ pc = "prompt"
  /\ an_input = << >>
  /\ delete_img = FALSE
  /\ artifact \in BOOLEAN
  /\ context \in Contexts
  /\ registry = Registry
  /\ last = NoDispatch
  /\ ret = None
  /\ log = << >>

\* an_input = session.prompt(...) / input(...): the reader gives any line
Prompt ==
  /\ pc = "prompt"
  /\ \E line \in Lines : an_input' = line
  /\ pc' = "switch"
  /\ UNCHANGED << delete_img, artifact, context, registry, last, ret, log >>

\* the same read in a recorded session of at most MaxDispatch lines: the
\* transcript keeps the line
PromptRun ==
  /\ pc = "prompt"
  /\ Len(log) < MaxDispatch
  /\ \E line \in ScriptLines :
       /\ an_input' = line
       /\ log' = Append(log, line)
  /\ pc' = "switch"
  /\ UNCHANGED << delete_img, artifact, context, registry, last, ret >>

\* the try statement around the result r of switch: plt.close("all"), the
\* test of the value, and the except SystemExit clause
Try(r) ==
  /\ last' = [r EXCEPT !.events =
                << "plt.close" >> \o r.events
                  \o (IF r.exc = "SystemExit" THEN << "print_not_exist" >> ELSE << >>)]
  /\ delete_img' = r.st.delete_img
  /\ artifact' = r.st.artifact
  /\ context' = r.st.context
  /\ registry' = r.st.registry
  /\ pc' = AfterSwitch(r)
  /\ ret' = IF AfterSwitch(r) = "returned" THEN r.ret ELSE ret

Dispatch ==
  /\ pc = "switch"
  /\ \E out \in Outcomes :
       \E r \in { switch(an_input, Self, out) } : Try(r)
  /\ UNCHANGED << an_input, log >>

\* back to the top of while True: the locals of the last turn are dead
Loop ==
  /\ pc = "looped"
  /\ pc' = "prompt"
  /\ an_input' = << >>
  /\ last' = NoDispatch
  /\ UNCHANGED << delete_img, artifact, context, registry, ret, log >>

Next == Prompt \/ Dispatch \/ Loop

Spec == Init /\ [][Next]_vars

NextRun == PromptRun \/ Dispatch \/ Loop

SpecRun == Init /\ [][NextRun]_vars

\* the recorded session run synchronously on one thread: once a line is
\* read, switch is called and runs to its end, and the loop goes on to the
\* next read; nothing obliges the user to type a line
SpecLive == SpecRun /\ WF_vars(Dispatch) /\ WF_vars(Loop)

-----------------------------------------------------------------------------
(* Vocabulary of the properties *)

\* switch has been called on an_input in this turn, and last is what it did
Dispatched == pc \in { "looped", "returned", "raised" }

\* the tokens of the line read
Tokens == Split(an_input)

\* the line has a first token and it is the registered name c
FirstTokenIs(c) == Tokens # << >> /\ Tokens[1] = c

\* the line has a first token and it is a registered name
FirstRegistered == Tokens # << >> /\ Tokens[1] \in Choices

\* the effect e occurs in the last dispatch
Occurs(e) == \E i \in 1..Len(last.events) : last.events[i] = e

\* the effect e occurs in the last dispatch before any handler is invoked
OccursBeforeHandlers(e) ==
  \E i \in 1..Len(last.events) :
    /\ last.events[i] = e
    /\ \A j \in 1..i : last.events[j] \notin Methods

\* the last dispatch invoked the handler of ema or of sma
MovingAverageCalled ==
  /\ Len(last.called) = 1
  /\ last.called[1].method \in { "call_ema", "call_sma" }

-----------------------------------------------------------------------------
(* C1 *)

\* C1: for every line whose first token is not a registered name, the
\* empty line included, switch returns None without raising and the loop
\* goes on to read the next line.
C1_Original ==
  (Dispatched /\ (Tokens = << >> \/ Tokens[1] \notin Choices))
    => (last.exc = "none" /\ last.ret = None /\ pc = "looped")

-----------------------------------------------------------------------------
(* C2 *)

\* C2: no error raised inside a handler leaves switch: after any dispatch
\* that invoked a handler no exception has left switch, and menu is either
\* still looping or has returned one of the two exit signals.
C2_NoHandlerErrorPropagates ==
  (Dispatched /\ last.called # << >>)
    => /\ last.exc = "none"
       /\ pc \in { "looped", "returned" }
       /\ (pc = "returned" => ret \in { EXIT_MENU, EXIT_PROGRAM })

-----------------------------------------------------------------------------
(* C3 *)

\* C3: when the argument parsing of ema or sma fails (the parser gives the
\* sentinel), switch returns None, no exception leaves it, and menu goes on
\* looping.
C3_ParseFailureContinues ==
  (Dispatched /\ MovingAverageCalled /\ ~last.ns.ok)
    => (last.ret = None /\ last.exc = "none" /\ pc = "looped" /\ ret = None)

C3_Witness ==
  /\ pc = "looped"
  /\ an_input = << "ema", "--length", "20,abc" >>
  /\ MovingAverageCalled
  /\ ~last.ns.ok
  /\ last.ret = None

-----------------------------------------------------------------------------
(* C4 *)

\* C4: if switch starts with delete_img set and the artifact present, then
\* whatever the line is the artifact is removed before any handler runs;
\* and with the artifact absent no exception comes from the clean-up.
C4_NextDispatchDeletesArtifact ==
  /\ (Dispatched /\ last.start.delete_img /\ last.start.artifact)
       => OccursBeforeHandlers("os.remove")
  /\ (Dispatched /\ last.start.delete_img /\ ~last.start.artifact /\ last.called = << >>)
       => last.exc \in { "none", "SystemExit" }

-----------------------------------------------------------------------------
(* C5 *)

\* C5: whenever switch starts with delete_img set, that call clears the
\* flag, the artifact present or absent: after a dispatch that did not run
\* the view handler (the one that sets it again) the flag is clear.
C5_FlagClearedByDispatch ==
  (Dispatched /\ last.start.delete_img
     /\ (last.called = << >> \/ last.called[1].method # "call_view"))
    => ~delete_img

-----------------------------------------------------------------------------
(* C6 *)

\* C6: menu returns exactly when the handler of q or quit has run, giving
\* False for q and True for quit; every other line leaves the loop running;
\* and the lines bogus, help, q make it return False after exactly three
\* dispatches.
C6_ReturnsExactlyOnExitSignal ==
  /\ Dispatched =>
       /\ (pc = "returned") = (Len(last.called) = 1
                                 /\ last.called[1].method \in { "call_q", "call_quit" })
       /\ (pc = "returned" /\ last.called[1].method = "call_q" => ret = EXIT_MENU)
       /\ (pc = "returned" /\ last.called[1].method = "call_quit" => ret = EXIT_PROGRAM)
       /\ (pc # "returned" => pc = "looped")
  /\ (log = << << "bogus" >>, << "help" >>, << "q" >> >> /\ Dispatched)
       => (pc = "returned" /\ ret = EXIT_MENU)
  /\ log \in { << << "bogus" >> >>, << << "bogus" >>, << "help" >> >> }
       => pc \in { "switch", "looped", "prompt" }

-----------------------------------------------------------------------------
(* C7 *)

\* C7: a dispatch of a line whose first token is the registered name c1
\* invokes call_<c1> and no other handler, whatever follows on the line;
\* and no dispatch invokes more than one handler.
C7_OnlyTheNamedHandlerRuns ==
  Dispatched =>
    /\ Len(last.called) <= 1
    /\ \A c1 \in Choices :
         FirstTokenIs(c1) =>
           /\ Len(last.called) = 1
           /\ last.called[1].method = "call_" \o c1
           /\ \A c2 \in Choices \ { c1 } : ~Occurs("call_" \o c2)

C7_Witness ==
  /\ Dispatched
  /\ an_input = << "ema", "sma" >>
  /\ Len(last.called) = 1
  /\ last.called[1].method = "call_ema"
  /\ ~Occurs("call_sma")

-----------------------------------------------------------------------------
(* C8 *)

\* C8: the first token alone selects the handler, by exact match: a line
\* whose first token is a registered name runs that handler, and a line
\* whose first token is not one (or that has none) runs no handler and is
\* unrecognized, even if a later token is a registered name.
C8_FirstTokenSelects ==
  Dispatched =>
    /\ FirstRegistered
         => (Len(last.called) = 1 /\ last.called[1].method = "call_" \o Tokens[1])
    /\ ~FirstRegistered
         => (last.called = << >> /\ last.exc = "SystemExit")

-----------------------------------------------------------------------------
(* C9 *)

\* C9: for a line whose first token is a registered name, the handler gets
\* exactly the tokens after it, in order and unchanged.
C9_RemainingTokensUnmodified ==
  (Dispatched /\ FirstRegistered /\ Len(last.called) = 1)
    => last.called[1].other_args = Tail(Tokens)

-----------------------------------------------------------------------------
(* C10 *)

\* C10: when the parser of ema or sma gives the sentinel, that dispatch
\* makes no indicator computation, shows no chart and exports nothing, and
\* switch returns None.
C10_SentinelAbortsCommand ==
  (Dispatched /\ MovingAverageCalled /\ ~last.ns.ok)
    => /\ ~Occurs("ta_overlap.ema")
       /\ ~Occurs("ta_overlap.sma")
       /\ ~Occurs("plt.show")
       /\ ~Occurs("export_data")
       /\ last.ret = None
       /\ last.exc = "none"

C10_Witness ==
  /\ Dispatched
  /\ an_input = << "ema", "--length", "10,30", "--offset", "-1" >>
  /\ MovingAverageCalled
  /\ last.called[1].other_args = << "--length", "10,30", "--offset", "-1" >>
  /\ ~last.ns.ok
  /\ ~Occurs("plt.show")

-----------------------------------------------------------------------------
(* C11 *)

\* C11: no step of the session changes the command registry (CHOICES and
\* the choices of ta_parser's cmd) or the session context (stock, ticker,
\* start, interval, gst): of the controller's fields only delete_img is
\* ever written.
C11_RegistryAndContextUnchanged ==
  [][context' = context /\ registry' = registry]_vars

\* a dispatch that wrote delete_img, with the context and the registry as
\* they were when it started
C11_Witness ==
  /\ Dispatched
  /\ last.called # << >>
  /\ delete_img # last.start.delete_img
  /\ context = last.start.context
  /\ registry = last.start.registry
  /\ registry.cmd_choices = CHOICES

-----------------------------------------------------------------------------
(* C12 *)

\* the number of times the effect e occurs in the last dispatch
Count(e) == Cardinality({ i \in 1..Len(last.events) : last.events[i] = e })

\* C12: when the computation or the plot of ema / sma raises, the handler
\* catches it: the exception is printed and nothing is done after that, the
\* failed call is not made a second time, no exception leaves switch, which
\* returns None, and menu goes on looping.
C12_CollaboratorFailureCaught ==
  (Dispatched /\ MovingAverageCalled /\ Occurs("raise"))
    => /\ last.exc = "none"
       /\ last.ret = None
       /\ pc = "looped"
       /\ Count("raise") = 1
       /\ SubSeq(last.events, Len(last.events) - 1, Len(last.events))
            = << "raise", "print_exception" >>
       /\ Count("ta_overlap.ema") + Count("ta_overlap.sma") = 1
       /\ Count("plt.show") <= 1

C12_Witness ==
  /\ pc = "looped"
  /\ an_input = << "sma", "--length", "10,30" >>
  /\ last.ns.ok
  /\ last.events
       = << "plt.close", "call_sma", "ta_overlap.sma", "plt.show", "raise", "print_exception" >>
  /\ last.ret = None

-----------------------------------------------------------------------------
(* C13 *)

\* the effect e occurs in the sequence events
In(e, events) == \E i \in 1..Len(events) : events[i] = e

\* C13: delete_img is False at construction; a step sets it only by a
\* dispatch that invoked call_view, in which finviz_view.view was called and
\* did not raise; and a step clears it only by the clean-up that removes
\* the artifact.  So the flag is set only if a view command completed
\* earlier and no clean-up has cleared it since.
C13_FlagSetOnlyByCompletedView ==
  /\ ~delete_img
  /\ [][/\ (~delete_img /\ delete_img')
             => /\ Len(last'.called) = 1
                /\ last'.called[1].method = "call_view"
                /\ last'.exc = "none"
                /\ In("finviz_view.view", last'.events)
                /\ ~In("raise", last'.events)
        /\ (delete_img /\ ~delete_img')
             => In("os.remove", last'.events)]_vars

\* the flag has just been set by a view command that completed
C13_Witness ==
  /\ pc = "looped"
  /\ delete_img
  /\ ~last.start.delete_img
  /\ Len(last.called) = 1
  /\ last.called[1].method = "call_view"
  /\ Occurs("finviz_view.view")
  /\ ~Occurs("raise")

-----------------------------------------------------------------------------
(* C14 *)

\* the command token of the line, its first token, is q or quit
ExitLine(line) == Split(line) # << >> /\ Split(line)[1] \in { "q", "quit" }

\* C14: once a line whose command token is q or quit has been read, menu
\* eventually returns, with False or True; a dispatch always ends, in the
\* next read, in the return of menu or in an exception; and menu never
\* returns a value while every line read so far was another registered
\* command or an unrecognized line.
C14_MenuTerminatesOnExitLine ==
  /\ (pc = "switch" /\ ExitLine(an_input))
       ~> (pc = "returned" /\ ret \in { EXIT_MENU, EXIT_PROGRAM })
  /\ (pc = "switch") ~> (pc \in { "prompt", "returned", "raised" })
  /\ [](pc = "returned" => \E i \in 1..Len(log) : ExitLine(log[i]))
  /\ []((\A i \in 1..Len(log) : ~ExitLine(log[i])) => ret = None)

-----------------------------------------------------------------------------
(* C15 *)

\* C15: every name the token parser accepts has its call_<name> method on
\* the controller, so no dispatch invokes the fallback lambda of getattr or
\* meets its TypeError: a dispatch the parser lets through invokes exactly
\* one method, the one named after the command token.
C15_FallbackNeverInvoked ==
  /\ \A i \in 1..Len(registry.cmd_choices) :
       ("call_" \o registry.cmd_choices[i]) \in Methods
  /\ Dispatched =>
       /\ ~Occurs("lambda")
       /\ last.exc # "TypeError"
       /\ last.exc # "SystemExit" =>
            /\ Len(last.called) = 1
            /\ last.called[1].method \in Methods
            /\ \E c \in Choices : last.called[1].method = "call_" \o c
            /\ Occurs(last.called[1].method)

\* the last name of CHOICES has been dispatched to its method
C15_Witness ==
  /\ Dispatched
  /\ an_input = << "obv" >>
  /\ last.called = << [method |-> "call_obv", other_args |-> << >>] >>
  /\ last.exc = "none"
  /\ ~Occurs("lambda")

====
